---- MODULE Spec2Model ----
(***************************************************************************)
(* Appointment booking and slot allocation of the medical consultation     *)
(* backend: the tables doctors, doctor_time_slots, appointments and        *)
(* notifications, and the handlers POST /appointments (bookAppointment),   *)
(* PUT /appointments/:id/status (updateStatus) and DELETE                  *)
(* /appointments/:id (cancelAppointment), with the transaction helper of   *)
(* config/database.js.                                                     *)
(*                                                                         *)
(* Spec      : requests of every principal are handled one at a time,      *)
(*             each handler is one action, the storage never fails.        *)
(* SpecFee   : Spec's requests, and the doctor's listed fee changes.       *)
(* SpecFault : one request at a time, a storage failure may hit any        *)
(*             statement of a handler.                                     *)
(* SpecProfile : as SpecFee, and doctors update their profile; a doctor    *)
(*             row may be unavailable from the start.                      *)
(* SpecRead  : bookings and cancellations with two doctors, and the reads  *)
(*             GET /appointments and GET /appointments/:id.                *)
(* SpecClock : bookings for a date and a time, validated against the       *)
(*             server's current time.                                      *)
(* SpecAuth  : authenticateToken on requests with any token, while the     *)
(*             rows of users change.                                       *)
(* SpecRoutes : GET requests dispatched by the specialties router.         *)
(* SpecConc  : booking requests run concurrently, one SQL statement per    *)
(*             step, under PostgreSQL's READ COMMITTED isolation.          *)
(* SpecCancelConc : cancel requests for one appointment and a booking of   *)
(*             its slot run concurrently, one SQL statement per step.      *)
(* SpecTx    : calls of transaction() on a bounded pool, one awaited       *)
(*             statement per step, each of which may fail.                 *)
(***************************************************************************)
EXTENDS Integers, Sequences, FiniteSets, Bags, TLC

\* ------------------------------------------------------------------ bounds
MaxAppts == 2          \* appointment ids handed out
MaxNotifs == 5         \* rows of notifications, Spec
MaxNotifsFee == 6      \* rows of notifications, SpecFee
MaxNotifsFault == 4    \* rows of notifications, SpecFault
MaxNotifsProfile == 4  \* rows of notifications, SpecProfile
MaxNotifsRead == 4     \* rows of notifications, SpecRead
MaxNotifsClock == 5    \* rows of notifications, SpecClock
NumRequests == 2       \* concurrent requests, SpecConc
NumCancels == 2        \* concurrent cancel requests, SpecCancelConc
NumTx == 3             \* calls of transaction(), SpecTx
PoolMax == 1           \* clients of the pool, SpecTx
MaxQueryLen == 3       \* characters of a search query, SpecRoutes

\* ---------------------------------------------------------- fixed universe
Patients == {"p1", "p2"}
DoctorUsers == {"d1", "d2"}
Admins == {"a1"}
UserIds == Patients \cup DoctorUsers \cup Admins

users ==
  [u \in UserIds |->
     [role |-> IF u \in Patients THEN "patient"
               ELSE IF u \in DoctorUsers THEN "doctor" ELSE "admin",
      is_active |-> TRUE]]

DoctorIds == {"D1", "D2"}
RequestedDoctorIds == {"D1", "D9"}
ProfileDoctorIds == {"D1", "D2", "D9"}
Modes == {"ONLINE", "OFFLINE"}
Fees == {50, 60}
SlotIds == {"s1", "s2"}
Times == {"09:00", "10:00", "11:00"}
TheDate == "2030-06-01"

Statuses == {"scheduled", "confirmed", "completed", "cancelled", "no_show"}
ActiveStatuses == {"scheduled", "confirmed"}
TerminalStatuses == {"completed", "cancelled", "no_show"}

VARIABLES
  doctors,            \* table doctors: id -> row
  doctor_time_slots,  \* table doctor_time_slots: id -> row
  appointments,       \* table appointments: id -> row
  notifications,      \* table notifications: a bag of rows (id and created_at left out)
  apptSeq,            \* last value of the SERIAL sequence appointments.id
  last,               \* the last request handled and the response it got
  reqs,               \* concurrent requests, their position and locals
  userRows            \* table users as stored: id -> row

tables == <<doctors, doctor_time_slots, appointments, notifications, apptSeq>>
vars == <<doctors, doctor_time_slots, appointments, notifications, apptSeq, last, reqs, userRows>>

\* The database as one value, handed to the handlers.
DB ==
  [doctors |-> doctors, slots |-> doctor_time_slots, appts |-> appointments,
   notifs |-> notifications, seq |-> apptSeq]

\* ------------------------------------------------------------ schema rows
InitDoctors ==
  [d \in DoctorIds |->
     [user_id |-> IF d = "D1" THEN "d1" ELSE "d2",
      consultation_fee |-> 50,
      consultation_modes |-> IF d = "D1" THEN {"ONLINE"} ELSE Modes,
      is_available |-> TRUE]]

InitSlots ==
  [s \in SlotIds |->
     [doctor_id |-> "D1",
      slot_date |-> TheDate,
      slot_time |-> IF s = "s1" THEN "09:00" ELSE "10:00",
      is_booked |-> FALSE]]

NoResponse == [status |-> 0, message |-> "none"]
Response(code, msg) == [status |-> code, message |-> msg]
DbError == "db error"

\* ------------------------------------------------ config/database.js
\* cb is what the callback did: the database as it left it (T), the error it
\* threw (or "none") and the response it sent (or NoResponse).
transactionNoRollback(T, cb, fault) ==
  IF fault \in {"connect", "BEGIN"}
    THEN [T |-> T, error |-> DbError, res |-> NoResponse, committed |-> FALSE, appt |-> 0]
    ELSE [T |-> cb.T, error |-> IF fault = "COMMIT" /\ cb.error = "none" THEN DbError ELSE cb.error,
          res |-> cb.res, committed |-> cb.error = "none" /\ fault # "COMMIT", appt |-> cb.appt]

transaction(T, cb, fault) ==
  IF fault \in {"connect", "BEGIN"}
    THEN [T |-> T, error |-> DbError, res |-> NoResponse, committed |-> FALSE, appt |-> 0]
  ELSE IF cb.error # "none"
    THEN \* ROLLBACK: every write is undone, the sequence keeps its value
         [T |-> [T EXCEPT !.seq = cb.T.seq], error |-> cb.error, res |-> cb.res,
          committed |-> FALSE, appt |-> cb.appt]
  ELSE IF fault = "COMMIT"
    THEN [T |-> [T EXCEPT !.seq = cb.T.seq], error |-> DbError, res |-> cb.res,
          committed |-> FALSE, appt |-> cb.appt]
  ELSE [T |-> cb.T, error |-> "none", res |-> cb.res, committed |-> TRUE, appt |-> cb.appt]

\* ------------------------------------------------ middleware/auth.js
requirePatient(u) == users[u].role = "patient"

\* NoResponse means next() was called
requireDoctor(T, u, fault) ==
  IF users[u].role # "doctor" THEN Response(403, "Doctor access required")
  ELSE IF fault = "selectDoctorProfile" THEN Response(500, "Failed to verify doctor status")
  ELSE LET doctorRows == {d \in DOMAIN T.doctors : T.doctors[d].user_id = u} IN
  IF doctorRows = {} THEN Response(404, "Doctor profile not found")
  ELSE IF ~T.doctors[CHOOSE d \in doctorRows : TRUE].is_available
    THEN Response(403, "Doctor profile is not available")
  ELSE NoResponse

\* tokens a request may carry: none, or a JWT naming a user id, with the role
\* it was issued for; verify accepts it, or throws TokenExpiredError,
\* JsonWebTokenError or another error (NotBeforeError)
Roles == {"patient", "doctor", "admin"}
TokenKinds == {"valid", "expired", "malformed", "notBefore"}
TokenUsers == {"p1", "d1", "ghost"}
NoToken == [kind |-> "none", id |-> "none", role |-> "none"]
Tokens == {NoToken} \cup [kind : TokenKinds, id : TokenUsers, role : Roles]
NoUser == [id |-> "none", role |-> "none", isActive |-> FALSE]

reqUserFromToken(rows, token) ==
  [id |-> token.id, role |-> token.role, isActive |-> rows[token.id].is_active]

\* req.user, built from the row just read
reqUser(rows, token) ==
  [id |-> token.id, role |-> rows[token.id].role, isActive |-> rows[token.id].is_active]

\* next is TRUE when next() was called, res is the response sent otherwise
authenticateToken(rows, token, fault) ==
  IF token.kind = "none"
    THEN [next |-> FALSE, user |-> NoUser, res |-> Response(401, "Access token is required")]
  ELSE IF token.kind = "expired"
    THEN [next |-> FALSE, user |-> NoUser, res |-> Response(401, "Token has expired")]
  ELSE IF token.kind = "malformed"
    THEN [next |-> FALSE, user |-> NoUser, res |-> Response(401, "Invalid token")]
  ELSE IF token.kind # "valid" \/ fault = "selectUser"
    THEN [next |-> FALSE, user |-> NoUser, res |-> Response(500, "Token verification failed")]
  ELSE IF token.id \notin DOMAIN rows
    THEN [next |-> FALSE, user |-> NoUser,
          res |-> Response(401, "Invalid token - user not found")]
  ELSE IF ~rows[token.id].is_active
    THEN [next |-> FALSE, user |-> NoUser,
          res |-> Response(401, "Account has been deactivated")]
  ELSE [next |-> TRUE, user |-> reqUser(rows, token), res |-> NoResponse]

\* ------------------------------------------------ POST /appointments
MsgDoctorNotFound == "Doctor not found or not available"
MsgModeNotSupported == "Doctor does not support this consultation mode"
MsgSlotNotAvailable == "Selected time slot is not available"
MsgBooked == "Appointment booked successfully"

BookFaults ==
  {"none", "connect", "BEGIN", "selectDoctor", "selectSlot", "insertAppointment",
   "updateSlot", "insertNotifications", "COMMIT"}

Thrown(T, msg) == [T |-> T, error |-> msg, res |-> NoResponse, appt |-> 0]

doctorResultAnyAvailability(T, doctorId) ==
  {d \in DOMAIN T.doctors : d = doctorId /\ users[T.doctors[d].user_id].is_active}

doctorResult(T, doctorId) ==
  {d \in DOMAIN T.doctors :
     d = doctorId /\ T.doctors[d].is_available /\ users[T.doctors[d].user_id].is_active}

slotResult(T, doctorId, date, time) ==
  {s \in DOMAIN T.slots :
     /\ T.slots[s].doctor_id = doctorId
     /\ T.slots[s].slot_date = date
     /\ T.slots[s].slot_time = time
     /\ T.slots[s].is_booked = FALSE}

appointmentRow(u, doctorId, slotId, date, time, mode, fee) ==
  [patient_id |-> u, doctor_id |-> doctorId, slot_id |-> slotId,
   appointment_date |-> date, appointment_time |-> time,
   consultation_mode |-> mode, consultation_fee |-> fee, status |-> "scheduled"]

insertAppointment(T, u, doctorId, slotId, date, time, mode, fee) ==
  LET id == T.seq + 1 IN
  [T EXCEPT !.seq = id,
            !.appts = T.appts @@
               (id :> appointmentRow(u, doctorId, slotId, date, time, mode, fee))]

markSlotBooked(T, slotId) == [T EXCEPT !.slots[slotId].is_booked = TRUE]

bookNotificationsPatientOnly(T, u, doctorUser, apptId) ==
  [T EXCEPT !.notifs = T.notifs
     (+) SetToBag({[user_id |-> u, type |-> "confirmation", text |-> "booked", appt |-> apptId]})]

bookNotifications(T, u, doctorUser, apptId) ==
  [T EXCEPT !.notifs = T.notifs
     (+) SetToBag({[user_id |-> u, type |-> "confirmation", text |-> "booked", appt |-> apptId]})
     (+) SetToBag({[user_id |-> doctorUser, type |-> "new_appointment", text |-> "booked",
                    appt |-> apptId]})]

bookCallback(T, u, doctorId, date, time, mode, fault) ==
  IF fault = "selectDoctor" THEN Thrown(T, DbError)
  ELSE IF doctorResult(T, doctorId) = {} THEN Thrown(T, MsgDoctorNotFound)
  ELSE LET doctor == T.doctors[doctorId] IN
  IF mode \notin doctor.consultation_modes THEN Thrown(T, MsgModeNotSupported)
  ELSE IF fault = "selectSlot" THEN Thrown(T, DbError)
  ELSE IF slotResult(T, doctorId, date, time) = {} THEN Thrown(T, MsgSlotNotAvailable)
  ELSE LET slotId == CHOOSE s \in slotResult(T, doctorId, date, time) : TRUE IN
  IF fault = "insertAppointment" THEN Thrown(T, DbError)
  ELSE LET T1 == insertAppointment(T, u, doctorId, slotId, date, time, mode,
                                   doctor.consultation_fee)
           id == T1.seq IN
  IF fault = "updateSlot" THEN Thrown(T1, DbError)
  ELSE LET T2 == markSlotBooked(T1, slotId) IN
  IF fault = "insertNotifications" THEN Thrown(T2, DbError)
  ELSE [T |-> bookNotifications(T2, u, doctor.user_id, id), error |-> "none",
        res |-> Response(201, MsgBooked), appt |-> id]

\* catch block of the handler: the message decides between 400 and 500
bookErrorResponse(msg) ==
  IF msg \in {MsgDoctorNotFound, MsgModeNotSupported, MsgSlotNotAvailable}
    THEN Response(400, msg)
    ELSE Response(500, "Failed to book appointment")

bookAppointment(T, u, doctorId, date, time, mode, fault) ==
  IF ~requirePatient(u)
    THEN [T |-> T, res |-> Response(403, "Patient access required"),
          committed |-> FALSE, appt |-> 0]
    ELSE LET tx == transaction(T, bookCallback(T, u, doctorId, date, time, mode, fault), fault) IN
         [T |-> tx.T,
          res |-> IF tx.res # NoResponse THEN tx.res
                  ELSE bookErrorResponse(tx.error),
          committed |-> tx.committed, appt |-> tx.appt]

\* ------------------------------------------------ PUT /appointments/:id/status
MsgNotYours == "You can only update your own appointments"
MsgAppointmentNotFound == "Appointment not found"
MsgUpdated == "Appointment status updated successfully"
MsgUpdateFailed == "Failed to update appointment status"

RequestedStatuses == Statuses
UpdateFaults ==
  {"none", "selectDoctorProfile", "selectAppointment", "updateAppointment", "insertNotification"}

\* Joi: status is one of the four values a doctor may set
validStatus(status) == status \in {"confirmed", "completed", "cancelled", "no_show"}

\* the row of SELECT a.*, d.user_id AS doctor_user_id ... WHERE a.id = $1
appointmentResult(T, apptId) ==
  {[id |-> a, patient_id |-> T.appts[a].patient_id, slot_id |-> T.appts[a].slot_id,
    status |-> T.appts[a].status, doctor_user_id |-> T.doctors[T.appts[a].doctor_id].user_id]
     : a \in {x \in DOMAIN T.appts : x = apptId}}

ownsAppointmentAnyDoctor(u, appointment) == TRUE

ownsAppointment(u, appointment) == appointment.doctor_user_id = u

setStatusRefreshFee(T, apptId, status) ==
  [T EXCEPT !.appts[apptId].status = status,
            !.appts[apptId].consultation_fee = T.doctors[T.appts[apptId].doctor_id].consultation_fee]

setStatus(T, apptId, status) == [T EXCEPT !.appts[apptId].status = status]

statusNotificationFreeingSlot(T, patient, status, apptId) ==
  [T EXCEPT !.notifs = T.notifs (+) SetToBag(
              {[user_id |-> patient, type |-> "status_update", text |-> status, appt |-> apptId]}),
            !.slots[T.appts[apptId].slot_id].is_booked = FALSE]

statusNotification(T, patient, status, apptId) ==
  [T EXCEPT !.notifs = T.notifs (+) SetToBag(
     {[user_id |-> patient, type |-> "status_update", text |-> status, appt |-> apptId]})]

updateStatus(T, u, apptId, status, fault) ==
  IF requireDoctor(T, u, fault) # NoResponse
    THEN [T |-> T, res |-> requireDoctor(T, u, fault), committed |-> FALSE, appt |-> apptId]
  ELSE IF ~validStatus(status)
    THEN [T |-> T, res |-> Response(400, "Validation Error"), committed |-> FALSE, appt |-> apptId]
  ELSE IF fault = "selectAppointment"
    THEN [T |-> T, res |-> Response(500, MsgUpdateFailed), committed |-> FALSE, appt |-> apptId]
  ELSE IF appointmentResult(T, apptId) = {}
    THEN [T |-> T, res |-> Response(404, MsgAppointmentNotFound), committed |-> FALSE, appt |-> apptId]
  ELSE LET appointment == CHOOSE r \in appointmentResult(T, apptId) : TRUE IN
  IF ~ownsAppointment(u, appointment)
    THEN [T |-> T, res |-> Response(403, MsgNotYours), committed |-> FALSE, appt |-> apptId]
  ELSE IF fault = "updateAppointment"
    THEN [T |-> T, res |-> Response(500, MsgUpdateFailed), committed |-> FALSE, appt |-> apptId]
  ELSE LET T1 == setStatus(T, apptId, status) IN
  IF fault = "insertNotification"
    THEN \* the UPDATE ran in autocommit mode and stays
         [T |-> T1, res |-> Response(500, MsgUpdateFailed), committed |-> TRUE, appt |-> apptId]
  ELSE [T |-> statusNotification(T1, appointment.patient_id, status, apptId),
        res |-> Response(200, MsgUpdated), committed |-> TRUE, appt |-> apptId]

\* ------------------------------------------------ DELETE /appointments/:id
MsgNoPermission == "You do not have permission to cancel this appointment"
MsgCannotCancel == "Cannot cancel appointment with current status"
MsgCancelled == "Appointment cancelled successfully"

CancelFaults ==
  {"none", "connect", "BEGIN", "selectAppointment", "updateAppointment", "updateSlot",
   "insertNotification", "COMMIT"}

canCancelAnyPatient(u, appointment) ==
  \/ users[u].role = "patient"
  \/ users[u].role = "doctor" /\ appointment.doctor_user_id = u
  \/ users[u].role = "admin"

canCancel(u, appointment) ==
  \/ users[u].role = "patient" /\ appointment.patient_id = u
  \/ users[u].role = "doctor" /\ appointment.doctor_user_id = u
  \/ users[u].role = "admin"

freeSlotNot(T, slotId) == T

freeSlot(T, slotId) == [T EXCEPT !.slots[slotId].is_booked = FALSE]

cancelNotificationToPatient(T, u, appointment) ==
  [T EXCEPT !.notifs = T.notifs (+) SetToBag(
     {[user_id |-> appointment.patient_id, type |-> "cancellation",
       text |-> "by doctor", appt |-> appointment.id]})]

cancelNotification(T, u, appointment) ==
  [T EXCEPT !.notifs = T.notifs (+) SetToBag(
     {IF users[u].role = "patient"
        THEN [user_id |-> appointment.doctor_user_id, type |-> "cancellation",
              text |-> "by patient", appt |-> appointment.id]
        ELSE [user_id |-> appointment.patient_id, type |-> "cancellation",
              text |-> "by doctor", appt |-> appointment.id]})]

cancelCallbackStatusFirst(T, u, apptId, fault) ==
  IF fault = "selectAppointment" THEN Thrown(T, DbError)
  ELSE IF appointmentResult(T, apptId) = {} THEN Thrown(T, MsgAppointmentNotFound)
  ELSE LET appointment == CHOOSE r \in appointmentResult(T, apptId) : TRUE IN
  IF appointment.status \notin {"scheduled", "confirmed"} THEN Thrown(T, MsgCannotCancel)
  ELSE IF ~canCancel(u, appointment) THEN Thrown(T, MsgNoPermission)
  ELSE IF fault = "updateAppointment" THEN Thrown(T, DbError)
  ELSE LET T1 == setStatus(T, apptId, "cancelled") IN
  IF fault = "updateSlot" THEN Thrown(T1, DbError)
  ELSE LET T2 == freeSlot(T1, appointment.slot_id) IN
  IF fault = "insertNotification" THEN Thrown(T2, DbError)
  ELSE [T |-> cancelNotification(T2, u, appointment), error |-> "none",
        res |-> Response(200, MsgCancelled), appt |-> apptId]

cancelCallbackAnyStatus(T, u, apptId, fault) ==
  IF fault = "selectAppointment" THEN Thrown(T, DbError)
  ELSE IF appointmentResult(T, apptId) = {} THEN Thrown(T, MsgAppointmentNotFound)
  ELSE LET appointment == CHOOSE r \in appointmentResult(T, apptId) : TRUE IN
  IF ~canCancel(u, appointment) THEN Thrown(T, MsgNoPermission)
  ELSE IF fault = "updateAppointment" THEN Thrown(T, DbError)
  ELSE LET T1 == setStatus(T, apptId, "cancelled") IN
  IF fault = "updateSlot" THEN Thrown(T1, DbError)
  ELSE LET T2 == freeSlot(T1, appointment.slot_id) IN
  IF fault = "insertNotification" THEN Thrown(T2, DbError)
  ELSE [T |-> cancelNotification(T2, u, appointment), error |-> "none",
        res |-> Response(200, MsgCancelled), appt |-> apptId]

cancelCallback(T, u, apptId, fault) ==
  IF fault = "selectAppointment" THEN Thrown(T, DbError)
  ELSE IF appointmentResult(T, apptId) = {} THEN Thrown(T, MsgAppointmentNotFound)
  ELSE LET appointment == CHOOSE r \in appointmentResult(T, apptId) : TRUE IN
  IF ~canCancel(u, appointment) THEN Thrown(T, MsgNoPermission)
  ELSE IF appointment.status \notin {"scheduled", "confirmed"} THEN Thrown(T, MsgCannotCancel)
  ELSE IF fault = "updateAppointment" THEN Thrown(T, DbError)
  ELSE LET T1 == setStatus(T, apptId, "cancelled") IN
  IF fault = "updateSlot" THEN Thrown(T1, DbError)
  ELSE LET T2 == freeSlot(T1, appointment.slot_id) IN
  IF fault = "insertNotification" THEN Thrown(T2, DbError)
  ELSE [T |-> cancelNotification(T2, u, appointment), error |-> "none",
        res |-> Response(200, MsgCancelled), appt |-> apptId]

cancelErrorResponse(msg) ==
  IF msg \in {MsgAppointmentNotFound, MsgNoPermission, MsgCannotCancel}
    THEN Response(400, msg)
    ELSE Response(500, "Failed to cancel appointment")

cancelAppointmentStatusFirst(T, u, apptId, fault) ==
  LET tx == transaction(T, cancelCallbackStatusFirst(T, u, apptId, fault), fault) IN
  [T |-> tx.T,
   res |-> IF tx.res # NoResponse THEN tx.res ELSE cancelErrorResponse(tx.error),
   committed |-> tx.committed, appt |-> apptId]

cancelAppointment(T, u, apptId, fault) ==
  LET tx == transaction(T, cancelCallback(T, u, apptId, fault), fault) IN
  [T |-> tx.T,
   res |-> IF tx.res # NoResponse THEN tx.res ELSE cancelErrorResponse(tx.error),
   committed |-> tx.committed, appt |-> apptId]

\* ------------------------------------------------ POST /doctors/profile
MsgProfileUpdated == "Doctor profile updated successfully"
MsgNoFields == "No valid fields to update"
MsgProfileFailed == "Failed to update doctor profile"

\* request bodies: consultationModes given (an array over the two modes) or
\* left out, bio given or not (the other optional fields behave as bio does)
ProfileBodies ==
  {[given |-> TRUE, consultationModes |-> m, bio |-> b] : m \in SUBSET Modes, b \in BOOLEAN}
    \cup {[given |-> FALSE, consultationModes |-> {}, bio |-> b] : b \in BOOLEAN}

\* req.doctor.id as requireDoctor sets it
doctorProfileId(T, u) == CHOOSE d \in DOMAIN T.doctors : T.doctors[d].user_id = u

setModes(T, d, modes) == [T EXCEPT !.doctors[d].consultation_modes = modes]

updateProfile(T, u, body, fault) ==
  IF requireDoctor(T, u, fault) # NoResponse
    THEN [T |-> T, res |-> requireDoctor(T, u, fault), committed |-> FALSE, appt |-> 0]
  ELSE IF ~body.given /\ ~body.bio
    THEN [T |-> T, res |-> Response(400, MsgNoFields), committed |-> FALSE, appt |-> 0]
  ELSE IF fault = "updateDoctor"
    THEN [T |-> T, res |-> Response(500, MsgProfileFailed), committed |-> FALSE, appt |-> 0]
  ELSE [T |-> IF ~body.given THEN T
              ELSE setModes(T, doctorProfileId(T, u), body.consultationModes),
        res |-> Response(200, MsgProfileUpdated), committed |-> TRUE, appt |-> 0]

\* ------------------------------------------------ GET /appointments/:id
MsgNoView == "You do not have permission to view this appointment"
MsgFetchOneFailed == "Failed to fetch appointment details"
Data == "data"
Undefined == "undefined"

\* req.doctor in this route: requireDoctor is not in its middleware chain
getAppointmentReqDoctor(T, u) == [id |-> Undefined]

hasAccess(T, u, row) ==
  \/ users[u].role = "patient" /\ row.patient_id = u
  \/ users[u].role = "doctor" /\ row.doctor_id = getAppointmentReqDoctor(T, u).id
  \/ users[u].role = "admin"

getAppointment(T, u, apptId, fault) ==
  IF fault = "selectAppointment"
    THEN [T |-> T, res |-> Response(500, MsgFetchOneFailed), committed |-> FALSE, appt |-> apptId]
  ELSE IF apptId \notin DOMAIN T.appts
    THEN [T |-> T, res |-> Response(404, MsgAppointmentNotFound), committed |-> FALSE, appt |-> apptId]
  ELSE IF ~hasAccess(T, u, T.appts[apptId])
    THEN [T |-> T, res |-> Response(403, MsgNoView), committed |-> FALSE, appt |-> apptId]
  ELSE [T |-> T, res |-> Response(200, Data), committed |-> FALSE, appt |-> apptId]

\* ------------------------------------------------ GET /appointments
MsgFetchFailed == "Failed to fetch appointments"
NoFilter == "none"
StatusFilters == {NoFilter, "scheduled", "cancelled"}

\* dates in calendar order; CURRENT_DATE is one of them
Calendar == <<"2030-05-31", "2030-06-01", "2030-06-02">>
DayIndex(date) == CHOOSE i \in 1..Len(Calendar) : Calendar[i] = date
Todays == {"2030-06-01", "2030-06-02"}
Dates == {Calendar[i] : i \in 1..Len(Calendar)}

\* the conditions pushed on whereConditions
whereConditions(u, status, upcoming) ==
  (IF users[u].role = "patient" THEN {"a.patient_id"}
   ELSE IF users[u].role = "doctor" THEN {"d.user_id"} ELSE {})
    \cup (IF status # NoFilter THEN {"a.status"} ELSE {})
    \cup (IF upcoming THEN {"a.appointment_date"} ELSE {})

roleConditionPatientOnly(T, u, a) ==
  users[u].role = "patient" => T.appts[a].patient_id = u

\* the role condition of the WHERE clause on row a
roleCondition(T, u, a) ==
  /\ users[u].role = "patient" => T.appts[a].patient_id = u
  /\ users[u].role = "doctor" => T.doctors[T.appts[a].doctor_id].user_id = u

\* page 1 with the default limit of 10 holds every row of the model
listAppointments(T, u, status, upcoming, today, fault) ==
  IF whereConditions(u, status, upcoming) = {} \/ fault = "selectAppointments"
    THEN \* an empty condition list leaves "WHERE" without a condition: the query fails
         [T |-> T, res |-> Response(500, MsgFetchFailed), committed |-> FALSE, appt |-> 0,
          rows |-> {}]
    ELSE [T |-> T, res |-> Response(200, Data), committed |-> FALSE, appt |-> 0,
          rows |-> {a \in DOMAIN T.appts :
                      /\ roleCondition(T, u, a)
                      /\ status # NoFilter => T.appts[a].status = status
                      /\ upcoming => DayIndex(T.appts[a].appointment_date) >= DayIndex(today)}]

\* ------------------------------------------------ POST /appointments, validation
\* times of day in order; an instant is a date and a time of day
Clock == <<"00:00", "08:00", "09:00", "10:00", "11:00">>
ClockIndex(time) == CHOOSE i \in 1..Len(Clock) : Clock[i] = time
Instant(date, time) == DayIndex(date) * Len(Clock) + ClockIndex(time)
Midnight == "00:00"

\* the server's current time at the requests
Nows ==
  {[date |-> "2030-05-31", time |-> "10:00"], [date |-> "2030-06-01", time |-> "00:00"],
   [date |-> "2030-06-01", time |-> "08:00"], [date |-> "2030-06-01", time |-> "10:00"],
   [date |-> "2030-06-02", time |-> "08:00"]}

\* Joi.date().min('now') on appointmentDate: the date, a day at midnight, is
\* not before the current time (appointmentTime is matched against a pattern
\* only; the dates are read in the server's time zone)
dateMinNow(date, time, now) ==
  Instant(date, Midnight) >= Instant(now.date, now.time)

\* the handler from requirePatient on: the body is validated first
postAppointment(T, u, doctorId, date, time, mode, now, fault) ==
  IF requirePatient(u) /\ ~dateMinNow(date, time, now)
    THEN [T |-> T, res |-> Response(400, "Validation Error"), committed |-> FALSE, appt |-> 0]
    ELSE bookAppointment(T, u, doctorId, date, time, mode, fault)

\* ------------------------------------------------ routes/routes-specialties.js
\* A path below the mount point is its sequence of segments; a query string q
\* is a sequence of characters, or NoQuery when the parameter is missing.
Segments == {"1", "2", "0", "search", "abc"}
Paths == {<< >>} \cup {<<seg>> : seg \in Segments}
Chars == {"a", "b", "A", " "}
NoQuery == <<"none">>
Queries == {NoQuery} \cup UNION {[1..n -> Chars] : n \in 0..MaxQueryLen}

\* table specialties: id -> name and description
specialties ==
  (1 :> [name |-> <<"a", "b">>, description |-> <<"b", "b">>]) @@
  (2 :> [name |-> <<"b", "a", "b", "a">>, description |-> <<"a", " ", "a">>])

\* the routes in the order of their registration
SpecialtyRoutes == <<"/", "/:id", "/search">>

routeMatches(route, path) ==
  IF route = "/" THEN path = << >>
  ELSE IF route = "/:id" THEN Len(path) = 1
  ELSE Len(path) = 1 /\ path[1] = "search"

\* Express hands the request to the first registered route that matches;
\* none of the handlers calls next()
dispatch(path) ==
  LET matching == {i \in 1..Len(SpecialtyRoutes) : routeMatches(SpecialtyRoutes[i], path)}
  IN IF matching = {} THEN "none"
     ELSE SpecialtyRoutes[CHOOSE i \in matching : \A j \in matching : i <= j]

\* Joi.number().integer().positive() on the path parameter
Numerals == ("0" :> 0) @@ ("1" :> 1) @@ ("2" :> 2)
validSpecialtyId(seg) == seg \in DOMAIN Numerals /\ Numerals[seg] > 0

RECURSIVE trimLeft(_)
trimLeft(q) == IF q # << >> /\ Head(q) = " " THEN trimLeft(Tail(q)) ELSE q

RECURSIVE trimRight(_)
trimRight(q) ==
  IF q # << >> /\ q[Len(q)] = " " THEN trimRight(SubSeq(q, 1, Len(q) - 1)) ELSE q

trim(q) == trimRight(trimLeft(q))
toLowerCase(q) == [i \in 1..Len(q) |-> IF q[i] = "A" THEN "a" ELSE q[i]]

\* LOWER(text) LIKE '%pattern%'
like(name, pattern) ==
  \E i \in 1..(Len(name) + 1) :
    /\ i + Len(pattern) - 1 <= Len(name)
    /\ SubSeq(toLowerCase(name), i, i + Len(pattern) - 1) = pattern

getSpecialties == [res |-> Response(200, Data), rows |-> DOMAIN specialties]

getSpecialtyById(seg) ==
  IF ~validSpecialtyId(seg)
    THEN [res |-> Response(400, "Invalid specialty ID"), rows |-> {}]
  ELSE IF Numerals[seg] \notin DOMAIN specialties
    THEN [res |-> Response(404, "Specialty not found"), rows |-> {}]
  ELSE [res |-> Response(200, Data), rows |-> {Numerals[seg]}]

searchSpecialties(q) ==
  IF q = NoQuery \/ q = << >> \/ Len(trim(q)) < 2
    THEN [res |-> Response(400, "Search query must be at least 2 characters long"),
          rows |-> {}]
    ELSE [res |-> Response(200, Data),
          rows |-> {id \in DOMAIN specialties :
                      \/ like(specialties[id].name, toLowerCase(trim(q)))
                      \/ like(specialties[id].description, toLowerCase(trim(q)))}]

specialtiesRouter(path, q) ==
  LET route == dispatch(path) IN
  IF route = "/" THEN getSpecialties
  ELSE IF route = "/:id" THEN getSpecialtyById(path[1])
  ELSE IF route = "/search" THEN searchSpecialties(q)
  ELSE [res |-> Response(404, "Not Found"), rows |-> {}]

\* -------------------------------------------------------------- actions
Apply(op, u, target, request, r) ==
  /\ doctors' = r.T.doctors
  /\ doctor_time_slots' = r.T.slots
  /\ appointments' = r.T.appts
  /\ notifications' = r.T.notifs
  /\ apptSeq' = r.T.seq
  /\ last' = [op |-> op, user |-> u, appt |-> target, request |-> request,
              status |-> r.res.status, message |-> r.res.message,
              committed |-> r.committed,
              rows |-> IF "rows" \in DOMAIN r THEN r.rows ELSE {}]
  /\ UNCHANGED <<reqs, userRows>>

Book(u, doctorId, time, mode, fault) ==
  /\ apptSeq < MaxAppts
  /\ LET r == bookAppointment(DB, u, doctorId, TheDate, time, mode, fault)
     IN Apply("book", u, r.appt, <<doctorId, time, mode>>, r)

BookAt(u, doctorId, date, time, mode, now) ==
  /\ apptSeq < MaxAppts
  /\ LET r == postAppointment(DB, u, doctorId, date, time, mode, now, "none")
     IN Apply("book", u, r.appt, <<doctorId, time, mode, date, now>>, r)

UpdateStatus(u, apptId, status, fault) ==
  /\ LET r == updateStatus(DB, u, apptId, status, fault)
     IN Apply("updateStatus", u, apptId, << >>, r)

Cancel(u, apptId, fault) ==
  /\ LET r == cancelAppointment(DB, u, apptId, fault)
     IN Apply("cancel", u, apptId, << >>, r)

\* the doctor's listed fee is changed outside these handlers
ChangeFee(d, fee) ==
  /\ doctors[d].consultation_fee # fee
  /\ doctors' = [doctors EXCEPT ![d].consultation_fee = fee]
  /\ last' = [op |-> "changeFee", user |-> "none", appt |-> 0, request |-> << >>, status |-> 0,
              message |-> "none", committed |-> TRUE, rows |-> {}]
  /\ UNCHANGED <<userRows, doctor_time_slots, appointments, notifications, apptSeq, reqs>>

UpdateProfile(u, body, fault) ==
  /\ LET r == updateProfile(DB, u, body, fault)
     IN Apply("updateProfile", u, 0, << >>, r)

Get(u, apptId) ==
  /\ LET r == getAppointment(DB, u, apptId, "none")
     IN Apply("get", u, apptId, << >>, r)

List(u, status, upcoming, today) ==
  /\ LET r == listAppointments(DB, u, status, upcoming, today, "none")
     IN Apply("list", u, 0, <<status, upcoming, today>>, r)

Authenticate(token, fault) ==
  /\ LET r == authenticateToken(userRows, token, fault) IN
     last' = [op |-> "authenticate", user |-> token.id, appt |-> 0,
              request |-> <<token, r.next, r.user>>, status |-> r.res.status,
              message |-> r.res.message, committed |-> FALSE, rows |-> {}]
  /\ UNCHANGED <<tables, reqs, userRows>>

\* rows of users are written outside these handlers: an account is
\* deactivated or reactivated, gets another role, or is deleted
SetActive(u, b) ==
  /\ u \in DOMAIN userRows
  /\ userRows[u].is_active # b
  /\ userRows' = [userRows EXCEPT ![u].is_active = b]
  /\ last' = [op |-> "setActive", user |-> u, appt |-> 0, request |-> << >>, status |-> 0,
              message |-> "none", committed |-> TRUE, rows |-> {}]
  /\ UNCHANGED <<tables, reqs>>

SetRole(u, role) ==
  /\ u \in DOMAIN userRows
  /\ userRows[u].role # role
  /\ userRows' = [userRows EXCEPT ![u].role = role]
  /\ last' = [op |-> "setRole", user |-> u, appt |-> 0, request |-> << >>, status |-> 0,
              message |-> "none", committed |-> TRUE, rows |-> {}]
  /\ UNCHANGED <<tables, reqs>>

DeleteUser(u) ==
  /\ u \in DOMAIN userRows
  /\ userRows' = [x \in DOMAIN userRows \ {u} |-> userRows[x]]
  /\ last' = [op |-> "deleteUser", user |-> u, appt |-> 0, request |-> << >>, status |-> 0,
              message |-> "none", committed |-> TRUE, rows |-> {}]
  /\ UNCHANGED <<tables, reqs>>

SpecialtiesGet(path, q) ==
  /\ LET r == specialtiesRouter(path, q) IN
     last' = [op |-> "specialties", user |-> "none", appt |-> 0,
              request |-> <<path, q, dispatch(path)>>, status |-> r.res.status,
              message |-> r.res.message, committed |-> FALSE, rows |-> r.rows]
  /\ UNCHANGED <<tables, reqs, userRows>>

Init ==
  /\ doctors = InitDoctors
  /\ doctor_time_slots = InitSlots
  /\ appointments = << >>
  /\ notifications = EmptyBag
  /\ apptSeq = 0
  /\ userRows = users
  /\ last = [op |-> "none", user |-> "none", appt |-> 0, request |-> << >>, status |-> 0,
             message |-> "none", committed |-> FALSE, rows |-> {}]
  /\ reqs = << >>

\* the notifications table has room for k more rows below the bound n
Room(k, n) == BagCardinality(notifications) + k <= n

\* requests of every principal, the storage never fails
Next ==
  \/ /\ Room(2, MaxNotifs)
     /\ \E u \in Patients, d \in RequestedDoctorIds, t \in Times, m \in Modes :
          Book(u, d, t, m, "none")
  \/ \E u \in UserIds \ Patients : Book(u, "D1", "09:00", "ONLINE", "none")
  \/ /\ Room(1, MaxNotifs)
     /\ \E u \in UserIds, a \in 1..MaxAppts, st \in RequestedStatuses :
          UpdateStatus(u, a, st, "none")
  \/ /\ Room(1, MaxNotifs)
     /\ \E u \in UserIds, a \in 1..MaxAppts : Cancel(u, a, "none")

Spec == Init /\ [][Next]_vars

\* bookings, the owning doctor's updates, cancellations, and fee changes
NextFee ==
  \/ /\ Room(2, MaxNotifsFee)
     /\ \E u \in Patients, t \in Times, m \in Modes : Book(u, "D1", t, m, "none")
  \/ /\ Room(1, MaxNotifsFee)
     /\ \E a \in 1..MaxAppts, st \in {"confirmed", "cancelled"} :
          UpdateStatus("d1", a, st, "none")
  \/ /\ Room(1, MaxNotifsFee)
     /\ \E u \in UserIds, a \in 1..MaxAppts : Cancel(u, a, "none")
  \/ \E fee \in Fees : ChangeFee("D1", fee)

SpecFee == Init /\ [][NextFee]_vars

\* requests of one patient, the owning doctor and the admin; any statement of
\* a writing handler may fail
NextFault ==
  \/ /\ Room(2, MaxNotifsFault)
     /\ \E d \in RequestedDoctorIds, t \in Times, m \in Modes, f \in BookFaults :
          Book("p1", d, t, m, f)
  \/ /\ Room(1, MaxNotifsFault)
     /\ \E a \in 1..MaxAppts, st \in {"confirmed", "completed"}, f \in UpdateFaults :
          UpdateStatus("d1", a, st, f)
  \/ /\ Room(1, MaxNotifsFault)
     /\ \E u \in {"p1", "a1"}, a \in 1..MaxAppts, f \in CancelFaults : Cancel(u, a, f)
  \/ \E u \in {"p1", "d1"}, a \in 1..MaxAppts : Get(u, a)
  \/ \E u \in {"p1", "a1"}, up \in BOOLEAN : List(u, NoFilter, up, "2030-06-01")

SpecFault == Init /\ [][NextFault]_vars

\* a doctor row may have is_available = false (no handler writes the column)
InitProfile ==
  /\ doctors \in {[InitDoctors EXCEPT !["D2"].is_available = b] : b \in BOOLEAN}
  /\ doctor_time_slots = InitSlots
  /\ appointments = << >>
  /\ notifications = EmptyBag
  /\ apptSeq = 0
  /\ userRows = users
  /\ last = [op |-> "none", user |-> "none", appt |-> 0, request |-> << >>, status |-> 0,
             message |-> "none", committed |-> FALSE, rows |-> {}]
  /\ reqs = << >>

\* bookings with any doctor, the owning doctor's updates, cancellations, fee
\* changes and profile updates
NextProfile ==
  \/ /\ Room(2, MaxNotifsProfile)
     /\ \E d \in ProfileDoctorIds, t \in Times, m \in Modes : Book("p1", d, t, m, "none")
  \/ /\ Room(1, MaxNotifsProfile)
     /\ \E a \in 1..MaxAppts, st \in {"confirmed", "completed"} :
          UpdateStatus("d1", a, st, "none")
  \/ /\ Room(1, MaxNotifsProfile)
     /\ \E u \in {"p1", "d1"}, a \in 1..MaxAppts : Cancel(u, a, "none")
  \/ \E fee \in Fees : ChangeFee("D1", fee)
  \/ \E u \in {"p1", "d1"}, body \in ProfileBodies : UpdateProfile(u, body, "none")

SpecProfile == InitProfile /\ [][NextProfile]_vars

\* each doctor has a slot of its own
InitRead ==
  /\ doctors = InitDoctors
  /\ doctor_time_slots = [InitSlots EXCEPT !["s2"].doctor_id = "D2"]
  /\ appointments = << >>
  /\ notifications = EmptyBag
  /\ apptSeq = 0
  /\ userRows = users
  /\ last = [op |-> "none", user |-> "none", appt |-> 0, request |-> << >>, status |-> 0,
             message |-> "none", committed |-> FALSE, rows |-> {}]
  /\ reqs = << >>

\* bookings with both doctors, cancellations by the patients, and reads by
\* every principal
NextRead ==
  \/ /\ Room(2, MaxNotifsRead)
     /\ \E u \in Patients, d \in DoctorIds, t \in Times : Book(u, d, t, "ONLINE", "none")
  \/ /\ Room(1, MaxNotifsRead)
     /\ \E u \in Patients, a \in 1..MaxAppts : Cancel(u, a, "none")
  \/ \E u \in UserIds, a \in 1..MaxAppts : Get(u, a)
  \/ \E u \in UserIds, st \in StatusFilters, up \in BOOLEAN, today \in Todays :
       List(u, st, up, today)

SpecRead == InitRead /\ [][NextRead]_vars

\* bookings for any date at any current time, and cancellations
NextClock ==
  \/ /\ Room(2, MaxNotifsClock)
     /\ \E u \in {"p1", "d1"}, date \in Dates, t \in Times, now \in Nows :
          BookAt(u, "D1", date, t, "ONLINE", now)
  \/ /\ Room(1, MaxNotifsClock)
     /\ \E a \in 1..MaxAppts : Cancel("p1", a, "none")

SpecClock == Init /\ [][NextClock]_vars

\* requests with any token while the rows of two users change
NextAuth ==
  \/ \E token \in Tokens, f \in {"none", "selectUser"} : Authenticate(token, f)
  \/ \E u \in {"p1", "d1"}, b \in BOOLEAN : SetActive(u, b)
  \/ \E u \in {"p1", "d1"}, role \in Roles : SetRole(u, role)
  \/ DeleteUser("d1")

SpecAuth == Init /\ [][NextAuth]_vars

\* GET requests to the specialties router
NextRoutes == \E path \in Paths, q \in Queries : SpecialtiesGet(path, q)

SpecRoutes == Init /\ [][NextRoutes]_vars

\* ------------------------------------------- concurrent booking requests
\* Each request runs the booking transaction on a connection of its own, one
\* statement per step.  A statement reads the committed tables; the writes of
\* a transaction reach the tables at its COMMIT; an UPDATE of a row waits
\* while another open transaction has updated that row.
ConcTimes == {"09:00", "10:00"}

NewRequest(u, t) ==
  [user |-> u, doctorId |-> "D1", time |-> t, mode |-> "ONLINE",
   pc |-> "BEGIN", fee |-> 0, doctor_user |-> "none",
   slot |-> "none", appt |-> 0, error |-> "none", res |-> NoResponse]

InitConc ==
  /\ doctors = InitDoctors
  /\ doctor_time_slots = InitSlots
  /\ appointments = << >>
  /\ notifications = EmptyBag
  /\ apptSeq = 0
  /\ userRows = users
  /\ last = [op |-> "none", user |-> "none", appt |-> 0, request |-> << >>, status |-> 0,
             message |-> "none", committed |-> FALSE, rows |-> {}]
  /\ reqs \in [1..NumRequests -> {NewRequest(u, t) : u \in Patients, t \in ConcTimes}]

\* the requests whose open transaction has updated the slot row
HoldsSlotRow(s) ==
  {j \in DOMAIN reqs :
     /\ reqs[j].slot = s
     /\ reqs[j].pc \in {"insertNotifications", "COMMIT",
                        "cancel:insertNotification", "cancel:COMMIT"}}

ConcBegin(i) ==
  /\ reqs[i].pc = "BEGIN"
  /\ reqs' = [reqs EXCEPT ![i].pc = "selectDoctor"]
  /\ UNCHANGED <<userRows, doctors, doctor_time_slots, appointments, notifications, apptSeq, last>>

ConcSelectDoctor(i) ==
  /\ reqs[i].pc = "selectDoctor"
  /\ reqs' =
       IF doctorResult(DB, reqs[i].doctorId) = {}
         THEN [reqs EXCEPT ![i].pc = "ROLLBACK", ![i].error = MsgDoctorNotFound]
       ELSE IF reqs[i].mode \notin doctors[reqs[i].doctorId].consultation_modes
         THEN [reqs EXCEPT ![i].pc = "ROLLBACK", ![i].error = MsgModeNotSupported]
       ELSE [reqs EXCEPT ![i].pc = "selectSlot",
                         ![i].fee = doctors[reqs[i].doctorId].consultation_fee,
                         ![i].doctor_user = doctors[reqs[i].doctorId].user_id]
  /\ UNCHANGED <<userRows, doctors, doctor_time_slots, appointments, notifications, apptSeq, last>>

ConcSelectSlot(i) ==
  /\ reqs[i].pc = "selectSlot"
  /\ LET rows == slotResult(DB, reqs[i].doctorId, TheDate, reqs[i].time) IN
     reqs' =
       IF rows = {}
         THEN [reqs EXCEPT ![i].pc = "ROLLBACK", ![i].error = MsgSlotNotAvailable]
         ELSE [reqs EXCEPT ![i].pc = "insertAppointment",
                           ![i].slot = CHOOSE s \in rows : TRUE]
  /\ UNCHANGED <<userRows, doctors, doctor_time_slots, appointments, notifications, apptSeq, last>>

ConcInsertAppointment(i) ==
  /\ reqs[i].pc = "insertAppointment"
  /\ apptSeq' = apptSeq + 1
  /\ reqs' = [reqs EXCEPT ![i].pc = "updateSlot", ![i].appt = apptSeq + 1]
  /\ UNCHANGED <<userRows, doctors, doctor_time_slots, appointments, notifications, last>>

ConcUpdateSlot(i) ==
  /\ reqs[i].pc = "updateSlot"
  /\ HoldsSlotRow(reqs[i].slot) = {}
  /\ reqs' = [reqs EXCEPT ![i].pc = "insertNotifications"]
  /\ UNCHANGED <<userRows, doctors, doctor_time_slots, appointments, notifications, apptSeq, last>>

ConcInsertNotifications(i) ==
  /\ reqs[i].pc = "insertNotifications"
  /\ reqs' = [reqs EXCEPT ![i].pc = "COMMIT", ![i].res = Response(201, MsgBooked)]
  /\ UNCHANGED <<userRows, doctors, doctor_time_slots, appointments, notifications, apptSeq, last>>

ConcCommit(i) ==
  /\ reqs[i].pc = "COMMIT"
  /\ LET r == reqs[i]
         T1 == [DB EXCEPT !.appts = DB.appts @@
                  (r.appt :> appointmentRow(r.user, r.doctorId, r.slot, TheDate, r.time,
                                            r.mode, r.fee))]
         T3 == bookNotifications(markSlotBooked(T1, r.slot), r.user, r.doctor_user, r.appt)
     IN /\ appointments' = T3.appts
        /\ doctor_time_slots' = T3.slots
        /\ notifications' = T3.notifs
  /\ reqs' = [reqs EXCEPT ![i].pc = "done"]
  /\ UNCHANGED <<userRows, doctors, apptSeq, last>>

ConcRollback(i) ==
  /\ reqs[i].pc = "ROLLBACK"
  /\ reqs' = [reqs EXCEPT ![i].pc = "done", ![i].res = bookErrorResponse(reqs[i].error)]
  /\ UNCHANGED <<userRows, doctors, doctor_time_slots, appointments, notifications, apptSeq, last>>

NextConc ==
  \E i \in 1..NumRequests :
    \/ ConcBegin(i)
    \/ ConcSelectDoctor(i)
    \/ ConcSelectSlot(i)
    \/ ConcInsertAppointment(i)
    \/ ConcUpdateSlot(i)
    \/ ConcInsertNotifications(i)
    \/ ConcCommit(i)
    \/ ConcRollback(i)

SpecConc == InitConc /\ [][NextConc]_vars

\* --------------------------- concurrent cancellations and a booking
\* NumCancels cancel requests for appointment 1 and one booking request for
\* its slot, each on a connection of its own, one statement per step.
CancelRequesters == {"p1", "d1", "a1"}

NewCancel(u, a) ==
  [user |-> u, pc |-> "cancel:BEGIN", appt |-> a, slot |-> "none",
   appointment |-> [id |-> 0], error |-> "none", res |-> NoResponse]

\* the state after patient p1 booked slot s1 of doctor D1
InitCancelConc ==
  /\ doctors = InitDoctors
  /\ doctor_time_slots = [InitSlots EXCEPT !["s1"].is_booked = TRUE]
  /\ appointments = (1 :> appointmentRow("p1", "D1", "s1", TheDate, "09:00", "ONLINE", 50))
  /\ notifications = bookNotifications([notifs |-> EmptyBag], "p1", "d1", 1).notifs
  /\ apptSeq = 1
  /\ userRows = users
  /\ last = [op |-> "none", user |-> "none", appt |-> 0, request |-> << >>, status |-> 0,
             message |-> "none", committed |-> FALSE, rows |-> {}]
  /\ reqs \in {[i \in 1..(NumCancels + 1) |->
                  IF i <= NumCancels THEN NewCancel(c[i], 1) ELSE NewRequest("p2", "09:00")]
                : c \in [1..NumCancels -> CancelRequesters]}

\* the cancel requests whose open transaction has updated the appointment row
HoldsAppointmentRow(a) ==
  {j \in DOMAIN reqs :
     /\ reqs[j].appt = a
     /\ reqs[j].pc \in {"cancel:updateSlot", "cancel:insertNotification", "cancel:COMMIT"}}

CancelBegin(i) ==
  /\ reqs[i].pc = "cancel:BEGIN"
  /\ reqs' = [reqs EXCEPT ![i].pc = "cancel:selectAppointment"]
  /\ UNCHANGED <<userRows, doctors, doctor_time_slots, appointments, notifications, apptSeq, last>>

CancelSelectAppointment(i) ==
  /\ reqs[i].pc = "cancel:selectAppointment"
  /\ LET rows == appointmentResult(DB, reqs[i].appt) IN
     reqs' =
       IF rows = {}
         THEN [reqs EXCEPT ![i].pc = "cancel:ROLLBACK", ![i].error = MsgAppointmentNotFound]
       ELSE LET appointment == CHOOSE r \in rows : TRUE IN
       IF ~canCancel(reqs[i].user, appointment)
         THEN [reqs EXCEPT ![i].pc = "cancel:ROLLBACK", ![i].error = MsgNoPermission]
       ELSE IF appointment.status \notin {"scheduled", "confirmed"}
         THEN [reqs EXCEPT ![i].pc = "cancel:ROLLBACK", ![i].error = MsgCannotCancel]
       ELSE [reqs EXCEPT ![i].pc = "cancel:updateAppointment",
                         ![i].appointment = appointment,
                         ![i].slot = appointment.slot_id]
  /\ UNCHANGED <<userRows, doctors, doctor_time_slots, appointments, notifications, apptSeq, last>>

\* UPDATE appointments ... WHERE id = $1: waits for the row, then writes it
CancelUpdateAppointment(i) ==
  /\ reqs[i].pc = "cancel:updateAppointment"
  /\ HoldsAppointmentRow(reqs[i].appt) = {}
  /\ reqs' = [reqs EXCEPT ![i].pc = "cancel:updateSlot"]
  /\ UNCHANGED <<userRows, doctors, doctor_time_slots, appointments, notifications, apptSeq, last>>

\* UPDATE doctor_time_slots ... WHERE id = $1
CancelUpdateSlot(i) ==
  /\ reqs[i].pc = "cancel:updateSlot"
  /\ HoldsSlotRow(reqs[i].slot) = {}
  /\ reqs' = [reqs EXCEPT ![i].pc = "cancel:insertNotification"]
  /\ UNCHANGED <<userRows, doctors, doctor_time_slots, appointments, notifications, apptSeq, last>>

CancelInsertNotification(i) ==
  /\ reqs[i].pc = "cancel:insertNotification"
  /\ reqs' = [reqs EXCEPT ![i].pc = "cancel:COMMIT", ![i].res = Response(200, MsgCancelled)]
  /\ UNCHANGED <<userRows, doctors, doctor_time_slots, appointments, notifications, apptSeq, last>>

CancelCommit(i) ==
  /\ reqs[i].pc = "cancel:COMMIT"
  /\ LET r == reqs[i]
         T3 == cancelNotification(freeSlot(setStatus(DB, r.appt, "cancelled"), r.slot),
                                  r.user, r.appointment)
     IN /\ appointments' = T3.appts
        /\ doctor_time_slots' = T3.slots
        /\ notifications' = T3.notifs
  /\ reqs' = [reqs EXCEPT ![i].pc = "done"]
  /\ UNCHANGED <<userRows, doctors, apptSeq, last>>

CancelRollback(i) ==
  /\ reqs[i].pc = "cancel:ROLLBACK"
  /\ reqs' = [reqs EXCEPT ![i].pc = "done", ![i].res = cancelErrorResponse(reqs[i].error)]
  /\ UNCHANGED <<userRows, doctors, doctor_time_slots, appointments, notifications, apptSeq, last>>

NextCancelConc ==
  \E i \in DOMAIN reqs :
    \/ CancelBegin(i)
    \/ CancelSelectAppointment(i)
    \/ CancelUpdateAppointment(i)
    \/ CancelUpdateSlot(i)
    \/ CancelInsertNotification(i)
    \/ CancelCommit(i)
    \/ CancelRollback(i)
    \/ ConcBegin(i)
    \/ ConcSelectDoctor(i)
    \/ ConcSelectSlot(i)
    \/ ConcInsertAppointment(i)
    \/ ConcUpdateSlot(i)
    \/ ConcInsertNotifications(i)
    \/ ConcCommit(i)
    \/ ConcRollback(i)

SpecCancelConc == InitCancelConc /\ [][NextCancelConc]_vars

\* --------------------------- config/database.js, transaction step by step
\* NumTx calls of transaction(callback) share a pool of PoolMax clients.  Each
\* awaited statement is one step and may fail; the callback may throw.
NewTx ==
  [pc |-> "tx:connect", client |-> "none", releases |-> 0, issued |-> {},
   failed |-> "none", thrown |-> "none", outcome |-> "none"]

InitTx ==
  /\ doctors = InitDoctors
  /\ doctor_time_slots = InitSlots
  /\ appointments = << >>
  /\ notifications = EmptyBag
  /\ apptSeq = 0
  /\ userRows = users
  /\ last = [op |-> "none", user |-> "none", appt |-> 0, request |-> << >>, status |-> 0,
             message |-> "none", committed |-> FALSE, rows |-> {}]
  /\ reqs = [i \in 1..NumTx |-> NewTx]

\* the clients checked out of the pool
CheckedOut == {j \in DOMAIN reqs : reqs[j].client = "held"}

\* const client = await pool.connect(), before the try block: with no client
\* free the call times out
TxConnect(i, ok) ==
  /\ reqs[i].pc = "tx:connect"
  /\ ok => Cardinality(CheckedOut) < PoolMax
  /\ reqs' = IF ok
               THEN [reqs EXCEPT ![i].pc = "tx:BEGIN", ![i].client = "held"]
               ELSE [reqs EXCEPT ![i].pc = "done", ![i].failed = "connect",
                                 ![i].thrown = "connect", ![i].outcome = "threw"]
  /\ UNCHANGED <<userRows, doctors, doctor_time_slots, appointments, notifications, apptSeq, last>>

\* a statement of the try block: on failure control goes to the catch block
tryStatement(r, stmt, next, ok) ==
  IF ok THEN [r EXCEPT !.pc = next, !.issued = r.issued \cup {stmt}]
        ELSE [r EXCEPT !.pc = "tx:ROLLBACK", !.issued = r.issued \cup {stmt},
                       !.failed = stmt, !.thrown = stmt]

TxBegin(i, ok) ==
  /\ reqs[i].pc = "tx:BEGIN"
  /\ reqs' = [reqs EXCEPT ![i] = tryStatement(reqs[i], "BEGIN", "tx:callback", ok)]
  /\ UNCHANGED <<userRows, doctors, doctor_time_slots, appointments, notifications, apptSeq, last>>

TxCallback(i, ok) ==
  /\ reqs[i].pc = "tx:callback"
  /\ reqs' = [reqs EXCEPT ![i] =
               IF ok THEN [reqs[i] EXCEPT !.pc = "tx:COMMIT"]
                     ELSE [reqs[i] EXCEPT !.pc = "tx:ROLLBACK", !.failed = "callback",
                                          !.thrown = "callback"]]
  /\ UNCHANGED <<userRows, doctors, doctor_time_slots, appointments, notifications, apptSeq, last>>

\* COMMIT, then "return result": the finally block runs before the function returns
TxCommit(i, ok) ==
  /\ reqs[i].pc = "tx:COMMIT"
  /\ reqs' = [reqs EXCEPT ![i] = tryStatement(reqs[i], "COMMIT", "tx:release", ok)]
  /\ UNCHANGED <<userRows, doctors, doctor_time_slots, appointments, notifications, apptSeq, last>>

catchBlockNoFinally(r, ok) ==
  IF ok THEN [r EXCEPT !.pc = "tx:release", !.issued = r.issued \cup {"ROLLBACK"}]
        ELSE [r EXCEPT !.pc = "done", !.issued = r.issued \cup {"ROLLBACK"},
                       !.thrown = "ROLLBACK", !.outcome = "threw"]

\* catch: ROLLBACK, then "throw error"; when ROLLBACK fails its error is the
\* one thrown; either way the finally block runs next
catchBlock(r, ok) ==
  IF ok THEN [r EXCEPT !.pc = "tx:release", !.issued = r.issued \cup {"ROLLBACK"}]
        ELSE [r EXCEPT !.pc = "tx:release", !.issued = r.issued \cup {"ROLLBACK"},
                       !.thrown = "ROLLBACK"]

TxRollback(i, ok) ==
  /\ reqs[i].pc = "tx:ROLLBACK"
  /\ reqs' = [reqs EXCEPT ![i] = catchBlock(reqs[i], ok)]
  /\ UNCHANGED <<userRows, doctors, doctor_time_slots, appointments, notifications, apptSeq, last>>

\* finally: client.release(), then the pending return or throw completes
TxRelease(i) ==
  /\ reqs[i].pc = "tx:release"
  /\ reqs' = [reqs EXCEPT ![i].pc = "done", ![i].client = "released",
                          ![i].releases = reqs[i].releases + 1,
                          ![i].outcome = IF reqs[i].thrown = "none" THEN "returned"
                                         ELSE "threw"]
  /\ UNCHANGED <<userRows, doctors, doctor_time_slots, appointments, notifications, apptSeq, last>>

NextTx ==
  \E i \in DOMAIN reqs :
    \/ \E ok \in BOOLEAN : TxConnect(i, ok)
    \/ \E ok \in BOOLEAN : TxBegin(i, ok)
    \/ \E ok \in BOOLEAN : TxCallback(i, ok)
    \/ \E ok \in BOOLEAN : TxCommit(i, ok)
    \/ \E ok \in BOOLEAN : TxRollback(i, ok)
    \/ TxRelease(i)

SpecTx == InitTx /\ [][NextTx]_vars

\* ================================================================ claims
\* C1: when all of N >= 2 concurrent bookAppointment requests ask for the same
\* free slot, then once all have finished exactly one got the 201, every other
\* one got the slot error, and exactly one appointment exists.
C1_ExactlyOneWinner ==
  ( /\ NumRequests >= 2
    /\ DOMAIN reqs = 1..NumRequests
    /\ \A i \in DOMAIN reqs : reqs[i].pc = "done" /\ reqs[i].time = reqs[1].time )
  => /\ Cardinality({i \in DOMAIN reqs : reqs[i].res.status = 201}) = 1
     /\ \A i \in DOMAIN reqs :
          reqs[i].res.status # 201 => reqs[i].res = Response(400, MsgSlotNotAvailable)
     /\ Cardinality(DOMAIN appointments) = 1

ActiveOn(s) ==
  {a \in DOMAIN appointments :
     appointments[a].slot_id = s /\ appointments[a].status \in ActiveStatuses}

RoleOf(u) == IF u \in UserIds THEN users[u].role ELSE "none"

OwningDoctor(u, a) ==
  /\ a \in DOMAIN appointments
  /\ doctors[appointments[a].doctor_id].user_id = u

\* C2: every slot is referenced by at most one appointment whose status is
\* not 'cancelled', in every state reachable by book, updateStatus and cancel.
C2_MutualExclusivity ==
  \A s \in SlotIds :
    Cardinality({a \in DOMAIN appointments :
                   appointments[a].slot_id = s /\ appointments[a].status # "cancelled"}) <= 1

\* C3: after every completed operation a scheduled or confirmed appointment
\* references a booked slot, and no cancelled appointment keeps its slot
\* booked on its behalf (a booked slot of a cancelled appointment is held by
\* another, active appointment).
C3_StatusMatchesSlot ==
  \A a \in DOMAIN appointments :
    LET slot == doctor_time_slots[appointments[a].slot_id] IN
    /\ appointments[a].status \in ActiveStatuses => slot.is_booked
    /\ (appointments[a].status = "cancelled" /\ slot.is_booked)
         => ActiveOn(appointments[a].slot_id) # {}

\* C4: after every completed operation a booked slot is referenced by exactly
\* one scheduled or confirmed appointment and a free slot by none.
C4_SlotMatchesStatus ==
  \A s \in SlotIds :
    /\ doctor_time_slots[s].is_booked => Cardinality(ActiveOn(s)) = 1
    /\ ~doctor_time_slots[s].is_booked => ActiveOn(s) = {}

\* C5: on an appointment in a terminal status every updateStatus by the owning
\* doctor, for any of the four target statuses, and every cancelAppointment by
\* a permitted requester fails with the invalid-state error and leaves the
\* status as it was.
C5_TerminalIsClosed ==
  [][ \A a \in DOMAIN appointments, u \in UserIds :
        ( /\ appointments[a].status \in TerminalStatuses
          /\ last'.appt = a /\ last'.user = u
          /\ \/ /\ OwningDoctor(u, a)
                /\ \E st \in Statuses : validStatus(st) /\ UpdateStatus(u, a, st, "none")
             \/ /\ \/ RoleOf(u) = "admin"
                   \/ OwningDoctor(u, a)
                   \/ appointments[a].patient_id = u
                /\ Cancel(u, a, "none") )
        => /\ last'.message = MsgCannotCancel
           /\ last'.status >= 400
           /\ appointments'[a].status = appointments[a].status ]_vars

Edges ==
  {<<"scheduled", "confirmed">>, <<"scheduled", "cancelled">>, <<"scheduled", "no_show">>,
   <<"scheduled", "completed">>, <<"confirmed", "completed">>, <<"confirmed", "cancelled">>,
   <<"confirmed", "no_show">>}

\* C6: every status change committed to an appointment, and every status
\* write updateStatus applies, follows one of the seven edges of the state
\* machine.
C6_OnlyLegalEdges ==
  [][ \A a \in DOMAIN appointments :
        /\ appointments'[a].status # appointments[a].status
             => <<appointments[a].status, appointments'[a].status>> \in Edges
        /\ (last'.op = "updateStatus" /\ last'.appt = a /\ last'.status = 200)
             => <<appointments[a].status, appointments'[a].status>> \in Edges ]_vars

\* C7: a successful cancelAppointment of A frees A's slot; a following
\* bookAppointment of that (doctor, date, time) by a patient, in a mode the
\* doctor supports, succeeds with a new id, status 'scheduled' and the fee the
\* doctor lists at that moment, and leaves A cancelled.
C7_CancelThenRebook ==
  [][ /\ (last'.op = "cancel" /\ last'.status = 200 /\ last'.committed)
         => /\ appointments'[last'.appt].status = "cancelled"
            /\ ~doctor_time_slots'[appointments[last'.appt].slot_id].is_booked
      /\ \A u \in Patients, t \in Times, m \in Modes, A \in DOMAIN appointments :
           ( /\ last'.op = "book" /\ last'.user = u
             /\ m \in doctors["D1"].consultation_modes
             /\ doctors["D1"].is_available
             /\ appointments[A].status = "cancelled"
             /\ appointments[A].doctor_id = "D1"
             /\ appointments[A].appointment_time = t
             /\ ~doctor_time_slots[appointments[A].slot_id].is_booked
             /\ Book(u, "D1", t, m, "none") )
           => /\ last'.status = 201
              /\ last'.appt \notin DOMAIN appointments
              /\ last'.appt \in DOMAIN appointments'
              /\ last'.appt # A
              /\ appointments'[last'.appt].status = "scheduled"
              /\ appointments'[last'.appt].slot_id = appointments[A].slot_id
              /\ appointments'[last'.appt].patient_id = u
              /\ appointments'[last'.appt].consultation_fee = doctors["D1"].consultation_fee
              /\ doctor_time_slots'[appointments[A].slot_id].is_booked
              /\ appointments'[A] = appointments[A] ]_vars

\* A was cancelled, the fee changed, and the slot is booked again at the new fee
C7_Witness ==
  /\ last.op = "book" /\ last.status = 201
  /\ \E A \in DOMAIN appointments :
       /\ A # last.appt
       /\ appointments[A].status = "cancelled"
       /\ appointments[A].slot_id = appointments[last.appt].slot_id
       /\ appointments[A].consultation_fee # appointments[last.appt].consultation_fee
       /\ appointments[last.appt].consultation_fee = doctors["D1"].consultation_fee

\* C8: cancelAppointment on a scheduled or confirmed appointment answers the
\* permission error (not the not-found nor the invalid-state error) to a
\* patient who does not own it and changes nothing; it succeeds for the owning
\* doctor and for an admin.
C8_CancelAuthorization ==
  [][ \A a \in DOMAIN appointments :
        ( /\ last'.op = "cancel" /\ last'.appt = a
          /\ appointments[a].status \in ActiveStatuses )
        => /\ (RoleOf(last'.user) = "patient" /\ appointments[a].patient_id # last'.user)
                => /\ last'.status = 400
                   /\ last'.message = MsgNoPermission
                   /\ last'.message \notin {MsgAppointmentNotFound, MsgCannotCancel}
                   /\ UNCHANGED tables
           /\ (RoleOf(last'.user) = "admin" \/ OwningDoctor(last'.user, a))
                => /\ last'.status = 200
                   /\ appointments'[a].status = "cancelled" ]_vars

C8_Witness ==
  /\ last.op = "cancel" /\ last.message = MsgNoPermission
  /\ RoleOf(last.user) = "patient"
  /\ last.appt \in DOMAIN appointments
  /\ appointments[last.appt].patient_id # last.user
  /\ appointments[last.appt].status \in ActiveStatuses

\* C9: updateStatus changes the database only for the doctor who owns the
\* appointment; a patient, an admin and a doctor who does not own it get a 403
\* for a well-formed request, and appointments, slots and notifications stay
\* as they were.
C9_UpdateOnlyByOwningDoctor ==
  [][ /\ (last'.op = "updateStatus" /\ ~UNCHANGED tables)
         => OwningDoctor(last'.user, last'.appt)
      /\ \A st \in Statuses :
           ( /\ last'.op = "updateStatus"
             /\ last'.appt \in DOMAIN appointments
             /\ ~OwningDoctor(last'.user, last'.appt)
             /\ validStatus(st)
             /\ UpdateStatus(last'.user, last'.appt, st, "none") )
           => /\ last'.status = 403
              /\ UNCHANGED tables ]_vars

C9_Witness ==
  /\ last.op = "updateStatus" /\ last.status = 403
  /\ RoleOf(last.user) = "doctor"
  /\ last.appt \in DOMAIN appointments
  /\ ~OwningDoctor(last.user, last.appt)

\* C10: a bookAppointment that does not commit, or that answers an error,
\* leaves doctors, slots, appointments and notifications as they were,
\* whichever statement failed.
C10_FailedBookingChangesNothing ==
  [][ (last'.op = "book" /\ (last'.status # 201 \/ ~last'.committed))
      => UNCHANGED <<doctors, doctor_time_slots, appointments, notifications>> ]_vars

\* a booking failed after its appointment insert: the id is used up, the row is gone
C10_Witness ==
  /\ last.op = "book" /\ last.status = 500
  /\ apptSeq > 0 /\ apptSeq \notin DOMAIN appointments

\* C11: whenever the transaction of bookAppointment or cancelAppointment does
\* not commit (the callback throws or COMMIT fails), the caller gets an error
\* response; a success response is sent only for a committed operation.
C11_SuccessOnlyIfCommitted ==
  (last.op \in {"book", "cancel"})
    => /\ ~last.committed => last.status >= 400
       /\ last.status \in {200, 201} => last.committed

\* C12: an appointment's consultation_fee is set at booking to the fee of the
\* doctor read in that booking, and no later operation (updateStatus,
\* cancelAppointment, a profile update, a change of the listed fee) changes it.
C12_FeeIsSnapshot ==
  [][ /\ \A a \in DOMAIN appointments :
           /\ a \in DOMAIN appointments'
           /\ appointments'[a].consultation_fee = appointments[a].consultation_fee
      /\ \A a \in DOMAIN appointments' \ DOMAIN appointments :
           /\ last'.op = "book"
           /\ appointments'[a].consultation_fee
                = doctors[appointments'[a].doctor_id].consultation_fee ]_vars

\* the listed fee changed after the booking, the appointment was confirmed and
\* cancelled, and the doctor then updated the profile
C12_Witness ==
  /\ last.op = "updateProfile" /\ last.status = 200
  /\ \E a \in DOMAIN appointments :
       /\ appointments[a].status = "cancelled"
       /\ appointments[a].consultation_fee # doctors[appointments[a].doctor_id].consultation_fee

\* the rows of notifications that reference appointment a
NotificationsOf(N, a) == {n \in BagToSet(N) : n.appt = a}

\* C13: every successful bookAppointment creates exactly two notifications
\* that reference the new appointment: a 'confirmation' to the booking patient
\* and a 'new_appointment' to the user account of the booked doctor.
C13_BookingNotifiesBoth ==
  [][ (last'.op = "book" /\ last'.status = 201 /\ last'.committed)
      => LET id == last'.appt
             toPatient == [user_id |-> last'.user, type |-> "confirmation",
                           text |-> "booked", appt |-> id]
             toDoctor == [user_id |-> doctors[appointments'[id].doctor_id].user_id,
                          type |-> "new_appointment", text |-> "booked", appt |-> id]
         IN /\ id \in DOMAIN appointments' \ DOMAIN appointments
            /\ appointments'[id].patient_id = last'.user
            /\ NotificationsOf(notifications, id) = {}
            /\ NotificationsOf(notifications', id) = {toPatient, toDoctor}
            /\ CopiesIn(toPatient, notifications') = 1
            /\ CopiesIn(toDoctor, notifications') = 1
            /\ BagCardinality(notifications') = BagCardinality(notifications) + 2
            /\ notifications \sqsubseteq notifications' ]_vars

\* the second booking, by the other patient, has its own two notifications
C13_Witness ==
  /\ last.op = "book" /\ last.status = 201 /\ last.appt = 2
  /\ appointments[1].patient_id # appointments[2].patient_id
  /\ Cardinality(NotificationsOf(notifications, 2)) = 2
  /\ Cardinality(NotificationsOf(notifications, 1)) >= 2

\* the cancellation notices the step adds for appointment a, by addressee
CancellationsAdded(a, user) ==
  {n \in BagToSet(notifications') :
     /\ n.appt = a /\ n.type = "cancellation" /\ n.user_id = user
     /\ CopiesIn(n, notifications') > CopiesIn(n, notifications)}

\* C14: a successful cancelAppointment by the owning patient creates a
\* cancellation notification to the owning doctor, one by the owning doctor
\* creates one to the patient: the party that did not cancel gets the notice.
C14_OtherPartyIsNotified ==
  [][ \A a \in DOMAIN appointments :
        (last'.op = "cancel" /\ last'.appt = a /\ last'.status = 200 /\ last'.committed)
        => /\ (RoleOf(last'.user) = "patient")
                => /\ appointments[a].patient_id = last'.user
                   /\ CancellationsAdded(a, doctors[appointments[a].doctor_id].user_id) # {}
           /\ OwningDoctor(last'.user, a)
                => CancellationsAdded(a, appointments[a].patient_id) # {}
           /\ BagCardinality(notifications') > BagCardinality(notifications)
           /\ notifications \sqsubseteq notifications' ]_vars

\* the owning doctor cancelled a confirmed appointment and the patient has the notice
C14_Witness ==
  /\ last.op = "cancel" /\ last.status = 200
  /\ last.appt \in DOMAIN appointments
  /\ OwningDoctor(last.user, last.appt)
  /\ appointments[last.appt].status = "cancelled"
  /\ [user_id |-> appointments[last.appt].patient_id, type |-> "cancellation",
      text |-> "by doctor", appt |-> last.appt] \in BagToSet(notifications)
  /\ [user_id |-> appointments[last.appt].patient_id, type |-> "status_update",
      text |-> "confirmed", appt |-> last.appt] \in BagToSet(notifications)

\* C15: every successful cancelAppointment requested by an admin creates two
\* cancellation notifications, one to the patient and one to the doctor of
\* the appointment.
C15_AdminCancelNotifiesBoth ==
  [][ \A a \in DOMAIN appointments :
        ( /\ last'.op = "cancel" /\ last'.appt = a /\ last'.status = 200
          /\ last'.committed /\ RoleOf(last'.user) = "admin" )
        => /\ CancellationsAdded(a, appointments[a].patient_id) # {}
           /\ CancellationsAdded(a, doctors[appointments[a].doctor_id].user_id) # {}
           /\ BagCardinality(notifications') = BagCardinality(notifications) + 2 ]_vars

\* C16: every status change updateStatus applies comes with exactly one
\* notification to the appointment's patient whose text depends on the new
\* status, also when the storage fails between the status update and the
\* notification insert.
C16_StatusChangeIsNotified ==
  [][ \A a \in DOMAIN appointments :
        (last'.op = "updateStatus" /\ appointments'[a].status # appointments[a].status)
        => LET n == [user_id |-> appointments[a].patient_id, type |-> "status_update",
                     text |-> appointments'[a].status, appt |-> a]
           IN /\ CopiesIn(n, notifications') = CopiesIn(n, notifications) + 1
              /\ BagCardinality(notifications') = BagCardinality(notifications) + 1 ]_vars

\* C17: in every reachable state, also after a doctor changed the supported
\* consultation modes through the profile update, the consultation mode of
\* every appointment is one of its doctor's supported modes.
C17_ModeIsSupported ==
  \A a \in DOMAIN appointments :
    appointments[a].consultation_mode
      \in doctors[appointments[a].doctor_id].consultation_modes

\* the free slots of the key (doctor, date, time)
FreeSlots(d, t) ==
  {s \in SlotIds : /\ doctor_time_slots[s].doctor_id = d
                   /\ doctor_time_slots[s].slot_date = TheDate
                   /\ doctor_time_slots[s].slot_time = t
                   /\ ~doctor_time_slots[s].is_booked}

\* C18: bookAppointment fails with a not-available error, creating nothing,
\* when the doctor does not exist, the doctor's is_available is false, or the
\* requested mode is not one of the doctor's; it fails with the slot-conflict
\* error when the doctor is valid but the key (doctor, date, time) has no slot
\* or a booked one.
C18_BookingRejections ==
  [][ (last'.op = "book" /\ RoleOf(last'.user) = "patient")
      => LET d == last'.request[1]
             t == last'.request[2]
             m == last'.request[3]
             listed == d \in DOMAIN doctors /\ doctors[d].is_available
             valid == listed /\ m \in doctors[d].consultation_modes
         IN /\ ~listed => /\ last'.status = 400
                          /\ last'.message = MsgDoctorNotFound
                          /\ UNCHANGED tables
            /\ (listed /\ ~valid) => /\ last'.status = 400
                                     /\ last'.message = MsgModeNotSupported
                                     /\ UNCHANGED tables
            /\ (valid /\ FreeSlots(d, t) = {}) => /\ last'.status = 400
                                                  /\ last'.message = MsgSlotNotAvailable
                                                  /\ UNCHANGED tables ]_vars

\* a booking with the unavailable doctor D2, in a mode D2 supports, was refused
\* while an earlier appointment with D1 stands
C18_Witness ==
  /\ last.op = "book" /\ last.user = "p1"
  /\ last.request[1] = "D2" /\ last.request[3] \in doctors["D2"].consultation_modes
  /\ ~doctors["D2"].is_available
  /\ last.message = MsgDoctorNotFound
  /\ DOMAIN appointments = {1} /\ apptSeq = 1

\* C19: getAppointment on an existing appointment returns it exactly when the
\* requester is the patient who owns it, the doctor who owns it, or an admin;
\* every other requester gets the forbidden error.
C19_ReadAccess ==
  (last.op = "get" /\ last.appt \in DOMAIN appointments)
    => LET mayRead == \/ appointments[last.appt].patient_id = last.user
                      \/ OwningDoctor(last.user, last.appt)
                      \/ RoleOf(last.user) = "admin"
       IN /\ mayRead => last.status = 200
          /\ ~mayRead => last.status = 403

\* C20: listAppointments returns to a patient only appointments of that
\* patient and to a doctor only appointments of that doctor, for every
\* combination of the status and upcoming filters.
C20_ListIsRoleScoped ==
  (last.op = "list")
    => \A a \in last.rows :
         /\ a \in DOMAIN appointments
         /\ RoleOf(last.user) = "patient" => appointments[a].patient_id = last.user
         /\ RoleOf(last.user) = "doctor" => OwningDoctor(last.user, a)

\* a doctor listed the upcoming scheduled appointments and got the own one,
\* not the scheduled appointment of the other doctor
C20_Witness ==
  /\ last.op = "list" /\ last.status = 200 /\ RoleOf(last.user) = "doctor"
  /\ last.request[1] = "scheduled" /\ last.request[2]
  /\ last.rows # {}
  /\ \E a \in DOMAIN appointments \ last.rows :
       /\ appointments[a].status = "scheduled"
       /\ ~OwningDoctor(last.user, a)

\* C21: listAppointments succeeds for every authenticated principal and every
\* valid filter combination, an admin with neither filter included: the WHERE
\* clause is never empty and the operation has no failure outcome.
C21_ListAlwaysSucceeds ==
  (last.op = "list")
    => /\ last.status = 200
       /\ whereConditions(last.user, last.request[1], last.request[2]) # {}

\* C22: bookAppointment is rejected with a validation error, creating nothing,
\* whenever the requested (date, time) instant is earlier than the server's
\* current time, and is not rejected on that ground when the instant is later
\* (for example a later time on the current day).
C22_PastIsRejectedFutureIsNot ==
  [][ (last'.op = "book" /\ RoleOf(last'.user) = "patient")
      => LET date == last'.request[4]
             time == last'.request[2]
             now == last'.request[5]
         IN /\ Instant(date, time) < Instant(now.date, now.time)
                 => /\ last'.status = 400
                    /\ last'.message = "Validation Error"
                    /\ UNCHANGED tables
            /\ Instant(date, time) > Instant(now.date, now.time)
                 => last'.message # "Validation Error" ]_vars

\* C23: the is_booked flag of a slot is changed only by a successful
\* bookAppointment (to true) and a successful cancelAppointment (to false);
\* updateStatus, getAppointment, listAppointments and every failed operation
\* leave all slot flags as they were.
C23_OnlyBookAndCancelWriteSlots ==
  [][ /\ \A s \in SlotIds :
           doctor_time_slots'[s] # doctor_time_slots[s]
           => /\ last'.committed
              /\ \/ /\ last'.op = "book" /\ last'.status = 201
                    /\ doctor_time_slots'[s] = [doctor_time_slots[s] EXCEPT !.is_booked = TRUE]
                 \/ /\ last'.op = "cancel" /\ last'.status = 200
                    /\ doctor_time_slots'[s] = [doctor_time_slots[s] EXCEPT !.is_booked = FALSE]
      /\ ( \/ last'.op \in {"updateStatus", "get", "list"}
           \/ last'.status >= 400
           \/ (last'.op \in {"book", "cancel"} /\ ~last'.committed) )
         => UNCHANGED doctor_time_slots ]_vars

\* the doctor completed an appointment and its slot is booked as before
C23_Witness ==
  /\ last.op = "updateStatus" /\ last.status = 200
  /\ last.appt \in DOMAIN appointments
  /\ appointments[last.appt].status = "completed"
  /\ doctor_time_slots[appointments[last.appt].slot_id].is_booked

\* the number of cancellation notices stored for appointment a
CancellationCount(a) ==
  LET notices == {n \in BagToSet(notifications) : n.type = "cancellation" /\ n.appt = a}
  IN BagCardinality([n \in notices |-> notifications[n]])

\* C24: when two cancelAppointment requests for the same appointment run
\* concurrently with each other and with a bookAppointment for the same slot,
\* the cancellation is applied at most once (one cancellation notification)
\* and no interleaving ends with a 'scheduled' appointment whose slot is free.
C24_CancelOnceAndSlotConsistent ==
  (\A i \in DOMAIN reqs : reqs[i].pc = "done")
    => /\ Cardinality({i \in DOMAIN reqs : reqs[i].res = Response(200, MsgCancelled)}) <= 1
       /\ CancellationCount(1) <= 1
       /\ \A a \in DOMAIN appointments :
            appointments[a].status = "scheduled"
              => doctor_time_slots[appointments[a].slot_id].is_booked

\* C25: cancelAppointment on an appointment whose status is not 'scheduled' or
\* 'confirmed' fails and changes nothing: statuses, slot flags and
\* notifications are as before the call, also when the slot has since been
\* booked again by another appointment.
C25_CancelOfClosedChangesNothing ==
  [][ \A a \in DOMAIN appointments :
        ( /\ last'.op = "cancel" /\ last'.appt = a
          /\ appointments[a].status \notin ActiveStatuses )
        => /\ last'.status = 400
           /\ ~last'.committed
           /\ ( \/ appointments[a].patient_id = last'.user
                \/ OwningDoctor(last'.user, a)
                \/ RoleOf(last'.user) = "admin" ) => last'.message = MsgCannotCancel
           /\ UNCHANGED tables ]_vars

\* a cancelled appointment whose slot is held by a later appointment was
\* cancelled again, and the later appointment keeps the slot
C25_Witness ==
  /\ last.op = "cancel" /\ last.message = MsgCannotCancel
  /\ last.appt \in DOMAIN appointments
  /\ appointments[last.appt].status = "cancelled"
  /\ doctor_time_slots[appointments[last.appt].slot_id].is_booked
  /\ \E b \in DOMAIN appointments :
       /\ b # last.appt
       /\ appointments[b].slot_id = appointments[last.appt].slot_id
       /\ appointments[b].status \in ActiveStatuses

\* C26: cancelAppointment checks existence, then authorization, then status:
\* a requester who is not the owning patient, the owning doctor or an admin
\* gets the same permission error on an existing appointment whatever its
\* status, so the outcome reveals nothing about the status.
C26_RefusalHidesStatus ==
  [][ \A a \in DOMAIN appointments :
        ( /\ last'.op = "cancel" /\ last'.appt = a
          /\ appointments[a].patient_id # last'.user
          /\ ~OwningDoctor(last'.user, a)
          /\ RoleOf(last'.user) # "admin" )
        => /\ last'.status = 400
           /\ last'.message = MsgNoPermission
           /\ UNCHANGED tables
           /\ \A st \in Statuses :
                cancelAppointment(setStatus(DB, a, st), last'.user, a, "none").res
                  = Response(last'.status, last'.message) ]_vars

\* a doctor who does not own a completed appointment was refused
C26_Witness ==
  /\ last.op = "cancel" /\ last.message = MsgNoPermission
  /\ last.appt \in DOMAIN appointments
  /\ appointments[last.appt].status = "completed"
  /\ RoleOf(last.user) = "doctor"
  /\ ~OwningDoctor(last.user, last.appt)

C28_OnlyActiveUsersPass ==
  (last.op = "authenticate")
    => LET token == last.request[1]
           next == last.request[2]
           user == last.request[3]
       IN /\ next => /\ token.kind = "valid"
                     /\ token.id \in DOMAIN userRows
                     /\ userRows[token.id].is_active
                     /\ user.id = token.id
                     /\ user.role = userRows[token.id].role
                     /\ last.status = 0
          /\ ~next => last.status \in {401, 500} /\ user = NoUser

\* a token that verifies, issued to a user as a patient, was refused because
\* the account is deactivated now
C28_Witness ==
  /\ last.op = "authenticate" /\ last.status = 401
  /\ last.request[1] = [kind |-> "valid", id |-> "p1", role |-> "patient"]
  /\ ~last.request[2]
  /\ "p1" \in DOMAIN userRows /\ ~userRows["p1"].is_active

\* C29: a GET request to the specialties router with path '/search' and a
\* query q of at least 2 non-blank characters is handled by the search
\* handler and returns the matching specialties; it is never captured by the
\* '/:id' handler and rejected as an invalid specialty id.
C29_SearchIsReachable ==
  (last.op = "specialties")
    => LET path == last.request[1]
           q == last.request[2]
       IN ( /\ path = <<"search">>
            /\ q # NoQuery
            /\ Len(trim(q)) >= 2 )
          => /\ last.request[3] = "/search"
             /\ last.message # "Invalid specialty ID"
             /\ last.status = 200
             /\ last.rows = searchSpecialties(q).rows
====
